---- MODULE Spec2Model ----
(***************************************************************************)
(* Model of src/dataset.py: the procedural shape-animation generator.      *)
(*                                                                         *)
(* Coordinates are kept in hundredths of a canvas unit (Scale), which is   *)
(* the grid round(random.uniform(a, b), 2) produces; the per-frame         *)
(* displacement frame * ((speed / 100) * 2.0) is then the integer          *)
(* frame * speed * 2.  Floating-point rounding noise of the additions is   *)
(* not modelled.                                                           *)
(***************************************************************************)
EXTENDS Integers, Sequences, FiniteSets, TLC

VARIABLES
    argv,       \* the command line: a function whose domain is the arguments given
    args,       \* the parsed command line (argparse Namespace)
    i,          \* loop index of main's for loop
    pc,         \* position of the program
    locals,     \* main's local variables: a function whose domain is the bound names
    figs,       \* pyplot's registry of open figures, in order of activation
    call,       \* the frame of the running circle() / triangle() call
    start,      \* the starting pose returned by the placement solver
    patch,      \* the current position of the patch on the axis
    rendered,   \* the poses the update function has set, frame by frame
    saved,      \* run indices of the files written by ani.save
    ani,        \* the animation object of the running shape function, as saved
    err,        \* the exception that ended the program, if any
    tf          \* the state of a call of a function of GANimation/tf_utils.py

vars == <<argv, args, i, pc, locals, figs, call, start, patch, rendered, saved, ani,
          err, tf>>

----------------------------------------------------------------------------
(* Bounds of the model *)

\* main draws every size and the speed from NSize + 1 points of its range
NSize == 0
\* random.uniform is sampled at NPos + 1 points of its interval, ends included
NPos == 1
\* circle() and triangle() are entered with NShape + 1 points of each range
NShape == 2
\* the largest --iterations
MaxIter == 2

----------------------------------------------------------------------------
(* Program constants *)

Scale == 100
Canvas == 256
\* a slack margin five units too wide
maxDistOver_wide == 155 + 5
maxDistOver == 155
Frames == 50
Fps == 25
RadiusMin == 10
RadiusMax == 77
SideMin == 10
SideMax == 75
SpeedMin == 20
SpeedMax == 100
QuadrantMax == 4

None == "None"
ShapeChoices == {"circle", "rectangle", "triangle"}
DirectionChoices == {"right", "left", "up", "down", "diagonal", "bouncy"}
\* random.choice over a list that lacks "diagonal"
RandomDirections_straight == {"right", "left", "up", "down"}

RandomDirections == {"right", "left", "up", "down", "diagonal"}

----------------------------------------------------------------------------
(* Helpers *)

Min(a, b) == IF a <= b THEN a ELSE b
Max(a, b) == IF a >= b THEN a ELSE b
Abs(a) == IF a >= 0 THEN a ELSE -a

\* n + 1 points of lo..hi: both ends and n - 1 points between them, or hi alone
Sample(lo, hi, n) ==
    IF n = 0 THEN {hi} ELSE {lo + ((hi - lo) * k) \div n : k \in 0..n}

\* a draw whose upper end lies one past hi, as random.randrange(lo, hi + 2)
randint_past(lo, hi) == Sample(lo, hi + 1, NSize)

\* random.randint(lo, hi) as main draws it
randint(lo, hi) == Sample(lo, hi, NSize)

\* random.randint(lo, hi) for rectWidth and rectHeight, which no statement reads
unread(lo, hi) == {hi}

\* round(random.uniform(a, b), 2), in hundredths
uniform(a, b) == Sample(Min(a, b) * Scale, Max(a, b) * Scale, NPos)

\* binding a local variable of main
Bind(l, name, v) == [n \in DOMAIN l \cup {name} |-> IF n = name THEN v ELSE l[n]]

IsBound(name) == name \in DOMAIN locals

\* the displacement of the following frame
Displacement_next(speed, frame) == (frame + 1) * (speed * 2)

\* a maximum speed of 1 unit per frame
Displacement_unit(speed, frame) == frame * speed

\* frame * ((speed / 100) * 2.0), in hundredths
Displacement(speed, frame) == frame * (speed * 2)

Returned(pose) == [exc |-> "none", pose |-> pose]
Raised(e) == [exc |-> e, pose |-> <<>>]

----------------------------------------------------------------------------
(* The placement solver *)

\* the outcomes of setpositioncircle: a pose <<(x, y)>> or an exception
setpositioncircle(direction, radius, diagonalDirection) ==
    LET fwd == uniform(radius, maxDistOver - radius)
        bwd == uniform(Canvas - maxDistOver + radius, Canvas - radius)
        any == uniform(radius, Canvas - radius)
        Pairs(X, Y) == {Returned(<< <<x, y>> >>) : x \in X, y \in Y}
    IN  CASE direction = "right" -> Pairs(fwd, any)
          [] direction = "left" -> Pairs(bwd, any)
          [] direction = "up" -> Pairs(any, fwd)
          [] direction = "down" -> Pairs(any, bwd)
          [] direction = "diagonal" /\ diagonalDirection = 1 -> Pairs(fwd, fwd)
          [] direction = "diagonal" /\ diagonalDirection = 2 -> Pairs(fwd, bwd)
             \* 256 - size: size is no name of the function or the module
          [] direction = "diagonal" /\ diagonalDirection = 3 -> {Raised("NameError")}
          [] direction = "diagonal" /\ diagonalDirection = 4 -> Pairs(bwd, fwd)
          [] OTHER -> {Returned(<< <<0, 0>> >>)}

\* the three vertices derived from the anchor (x1, y1)
FromLeft(x1, y1, base, height) ==
    << <<x1, y1>>,
       <<x1 + base * Scale, y1>>,
       <<x1 + (base * Scale) \div 2, y1 + height * Scale>> >>

\* the vertices derived from (x2, y2) with x1 = x2 - base / 2
FromRight_half(x2, y2, base, height) ==
    << <<x2 - (base * Scale) \div 2, y2>>,
       <<x2, y2>>,
       <<(x2 - (base * Scale) \div 2) + (base * Scale) \div 2, y2 + height * Scale>> >>

\* the three vertices derived from the anchor (x2, y2)
FromRight(x2, y2, base, height) ==
    << <<x2 - base * Scale, y2>>,
       <<x2, y2>>,
       <<(x2 - base * Scale) + (base * Scale) \div 2, y2 + height * Scale>> >>

\* the outcomes of setpositiontriangle: a pose of three vertices or an exception
setpositiontriangle(direction, base, height, diagonalDirection) ==
    LET fwdX == uniform(0, maxDistOver - base)
        bwdX == uniform(Canvas - maxDistOver + base, Canvas)
        anyX == uniform(0, Canvas - base)
        fwdY == uniform(0, maxDistOver - height)
        bwdY == uniform(Canvas - maxDistOver, Canvas - height)
        anyY == uniform(0, Canvas - height)
        Left(X, Y) == {Returned(FromLeft(x, y, base, height)) : x \in X, y \in Y}
        Right(X, Y) == {Returned(FromRight(x, y, base, height)) : x \in X, y \in Y}
    IN  CASE direction = "right" -> Left(fwdX, anyY)
          [] direction = "left" -> Right(bwdX, anyY)
          [] direction = "up" -> Left(anyX, fwdY)
          [] direction = "down" -> Left(anyX, bwdY)
          [] direction = "diagonal" /\ diagonalDirection = 1 -> Left(fwdX, fwdY)
          [] direction = "diagonal" /\ diagonalDirection = 2 -> Left(fwdX, bwdY)
          [] direction = "diagonal" /\ diagonalDirection = 3 -> Right(bwdX, bwdY)
          [] direction = "diagonal" /\ diagonalDirection = 4 -> Right(bwdX, fwdY)
             \* x1 .. y3 are never assigned
          [] OTHER -> {Raised("UnboundLocalError")}

----------------------------------------------------------------------------
(* The update functions: the pose set at a frame *)

\* right() with the y line of diagonal()
circle_right_drift(x0, y0, speed, frame) ==
    << <<x0 + frame * (speed * 2), y0 + frame * (speed * 2)>> >>

circle_right(x0, y0, speed, frame) ==
    << <<x0 + Displacement(speed, frame), y0>> >>

circle_left(x0, y0, speed, frame) ==
    << <<x0 - Displacement(speed, frame), y0>> >>

circle_up(x0, y0, speed, frame) ==
    << <<x0, y0 + Displacement(speed, frame)>> >>

circle_down(x0, y0, speed, frame) ==
    << <<x0, y0 - Displacement(speed, frame)>> >>

circle_diagonal(x0, y0, speed, diagonalDirection, frame) ==
    LET d == Displacement(speed, frame)
    IN  CASE diagonalDirection = 1 -> << <<x0 + d, y0 + d>> >>
          [] diagonalDirection = 2 -> << <<x0 + d, y0 - d>> >>
          [] diagonalDirection = 3 -> << <<x0 - d, y0 - d>> >>
          [] diagonalDirection = 4 -> << <<x0 - d, y0 + d>> >>

triangle_right(v, speed, frame) ==
    LET d == Displacement(speed, frame)
    IN  << <<v[1][1] + d, v[1][2]>>, <<v[2][1] + d, v[2][2]>>, <<v[3][1] + d, v[3][2]>> >>

\* left() with the third vertex moved as in right()
triangle_left_bent(v, speed, frame) ==
    << <<v[1][1] - frame * (speed * 2), v[1][2]>>,
       <<v[2][1] - frame * (speed * 2), v[2][2]>>,
       <<v[3][1] + frame * (speed * 2), v[3][2]>> >>

triangle_left(v, speed, frame) ==
    LET d == Displacement(speed, frame)
    IN  << <<v[1][1] - d, v[1][2]>>, <<v[2][1] - d, v[2][2]>>, <<v[3][1] - d, v[3][2]>> >>

triangle_up(v, speed, frame) ==
    LET d == Displacement(speed, frame)
    IN  << <<v[1][1], v[1][2] + d>>, <<v[2][1], v[2][2] + d>>, <<v[3][1], v[3][2] + d>> >>

triangle_down(v, speed, frame) ==
    LET d == Displacement(speed, frame)
    IN  << <<v[1][1], v[1][2] - d>>, <<v[2][1], v[2][2] - d>>, <<v[3][1], v[3][2] - d>> >>

\* diagonal() with the branches of quadrants 3 and 4 exchanged
triangle_diagonal_swapped(v, speed, diagonalDirection, frame) ==
    IF diagonalDirection \in {3, 4}
    THEN [k \in 1..3 |->
            <<v[k][1] - frame * (speed * 2),
              IF diagonalDirection = 3 THEN v[k][2] + frame * (speed * 2)
                                       ELSE v[k][2] - frame * (speed * 2)>>]
    ELSE [k \in 1..3 |->
            <<v[k][1] + frame * (speed * 2),
              IF diagonalDirection = 1 THEN v[k][2] + frame * (speed * 2)
                                       ELSE v[k][2] - frame * (speed * 2)>>]

triangle_diagonal(v, speed, diagonalDirection, frame) ==
    LET d == Displacement(speed, frame)
    IN  CASE diagonalDirection = 1 ->
               << <<v[1][1] + d, v[1][2] + d>>, <<v[2][1] + d, v[2][2] + d>>,
                  <<v[3][1] + d, v[3][2] + d>> >>
          [] diagonalDirection = 2 ->
               << <<v[1][1] + d, v[1][2] - d>>, <<v[2][1] + d, v[2][2] - d>>,
                  <<v[3][1] + d, v[3][2] - d>> >>
          [] diagonalDirection = 3 ->
               << <<v[1][1] - d, v[1][2] - d>>, <<v[2][1] - d, v[2][2] - d>>,
                  <<v[3][1] - d, v[3][2] - d>> >>
          [] diagonalDirection = 4 ->
               << <<v[1][1] - d, v[1][2] + d>>, <<v[2][1] - d, v[2][2] + d>>,
                  <<v[3][1] - d, v[3][2] + d>> >>

\* the update function FuncAnimation is given in circle(), applied to a frame
circle_update(c, s, frame) ==
    CASE c.direction = "right" -> circle_right(s[1][1], s[1][2], c.speed, frame)
      [] c.direction = "left" -> circle_left(s[1][1], s[1][2], c.speed, frame)
      [] c.direction = "up" -> circle_up(s[1][1], s[1][2], c.speed, frame)
      [] c.direction = "down" -> circle_down(s[1][1], s[1][2], c.speed, frame)
      [] c.direction = "diagonal" ->
           circle_diagonal(s[1][1], s[1][2], c.speed, c.diagonalDirection, frame)

\* the update function FuncAnimation is given in triangle(), applied to a frame
triangle_update(c, s, frame) ==
    CASE c.direction = "right" -> triangle_right(s, c.speed, frame)
      [] c.direction = "left" -> triangle_left(s, c.speed, frame)
      [] c.direction = "up" -> triangle_up(s, c.speed, frame)
      [] c.direction = "down" -> triangle_down(s, c.speed, frame)
      [] c.direction = "diagonal" ->
           triangle_diagonal(s, c.speed, c.diagonalDirection, frame)

----------------------------------------------------------------------------
(* The output file names, as sequences of characters; ROOT is left out *)

Digits == <<"0", "1", "2", "3", "4", "5", "6", "7", "8", "9">>

\* str(n) of a natural number
RECURSIVE Str(_)
Str(n) == IF n < 10 THEN <<Digits[n + 1]>> ELSE Str(n \div 10) \o <<Digits[(n % 10) + 1]>>

\* the format {n:03}
Pad3(n) ==
    LET d == Str(n)
    IN  IF Len(d) >= 3 THEN d ELSE [k \in 1..(3 - Len(d)) |-> "0"] \o d

\* the first letter of the direction (down and diagonal share it)
DirectionCode_initial(direction) ==
    CASE direction = "right" -> <<"r">>
      [] direction = "left" -> <<"l">>
      [] direction = "up" -> <<"u">>
      [] direction = "down" -> <<"d">>
      [] direction = "diagonal" -> <<"d">>

\* the direction part of the name in the branch of each direction
DirectionCode(direction) ==
    CASE direction = "right" -> <<"r">>
      [] direction = "left" -> <<"l">>
      [] direction = "up" -> <<"u">>
      [] direction = "down" -> <<"d", "w", "n">>
      [] direction = "diagonal" -> <<"d", "i", "a", "g">>

\* f'{i:03}-c-r{radius}-{dir}-{speed}.gif'
circle_filename(ind, radius, direction, speed) ==
    Pad3(ind) \o <<"-", "c", "-", "r">> \o Str(radius) \o <<"-">>
        \o DirectionCode(direction) \o <<"-">> \o Str(speed) \o <<".", "g", "i", "f">>

\* f'{i:03}-t-b{base}h{height}-{dir}-{speed}.gif'
triangle_filename(ind, base, height, direction, speed) ==
    Pad3(ind) \o <<"-", "t", "-", "b">> \o Str(base) \o <<"h">> \o Str(height) \o <<"-">>
        \o DirectionCode(direction) \o <<"-">> \o Str(speed) \o <<".", "g", "i", "f">>

\* no animation object
NoAni == [name |-> <<>>, fps |-> 0, frames |-> 0]

----------------------------------------------------------------------------
(* The command line *)

NoOptions ==
    [direction |-> None, radius |-> 0, rectwidth |-> 0, rectheight |-> 0,
     base |-> 0, triheight |-> 0, speed |-> 0]

\* the option part of a command line: at most one option is given
Options ==
    {NoOptions}
    \cup {[NoOptions EXCEPT !.direction = d] : d \in DirectionChoices}
    \cup {[NoOptions EXCEPT !.radius = RadiusMin],
          [NoOptions EXCEPT !.rectwidth = SideMin],
          [NoOptions EXCEPT !.rectheight = SideMin],
          [NoOptions EXCEPT !.base = SideMin],
          [NoOptions EXCEPT !.triheight = SideMin],
          [NoOptions EXCEPT !.speed = SpeedMin]}

Namespace(o, shape, iterations) ==
    [iterations |-> iterations, shape |-> shape, direction |-> o.direction,
     radius |-> o.radius, rectwidth |-> o.rectwidth, rectheight |-> o.rectheight,
     base |-> o.base, triheight |-> o.triheight, speed |-> o.speed]

\* what parser.parse_args() can return
CommandLines ==
    {Namespace(o, s, n) : o \in Options, s \in ShapeChoices, n \in 0..MaxIter}

NumericOptions == {"radius", "rectwidth", "rectheight", "base", "triheight", "speed"}

\* choices that take the default 0 for a choice
Choices_or_default(option) ==
    CASE option = "radius" -> {0} \cup (RadiusMin..RadiusMax)
      [] option = "speed" -> {0} \cup (SpeedMin..SpeedMax)
      [] OTHER -> {0} \cup (SideMin..SideMax)

\* choices=range(...) of a numeric option
Choices(option) ==
    CASE option = "radius" -> RadiusMin..RadiusMax
      [] option = "speed" -> SpeedMin..SpeedMax
      [] OTHER -> SideMin..SideMax

\* whether parse_args accepts the command line: shape is a required positional
Accepted(a) ==
    /\ "shape" \in DOMAIN a
    /\ a.shape \in ShapeChoices
    /\ "direction" \in DOMAIN a => a.direction \in DirectionChoices
    /\ \A o \in NumericOptions \cap DOMAIN a : a[o] \in Choices(o)

\* the Namespace of an accepted command line: defaults for what is not given
parse_args(a) ==
    [iterations |-> IF "iterations" \in DOMAIN a THEN a.iterations ELSE 1,
     shape |-> a.shape,
     direction |-> IF "direction" \in DOMAIN a THEN a.direction ELSE None,
     radius |-> IF "radius" \in DOMAIN a THEN a.radius ELSE 0,
     rectwidth |-> IF "rectwidth" \in DOMAIN a THEN a.rectwidth ELSE 0,
     rectheight |-> IF "rectheight" \in DOMAIN a THEN a.rectheight ELSE 0,
     base |-> IF "base" \in DOMAIN a THEN a.base ELSE 0,
     triheight |-> IF "triheight" \in DOMAIN a THEN a.triheight ELSE 0,
     speed |-> IF "speed" \in DOMAIN a THEN a.speed ELSE 0]

\* the command line that gives shape, -i n (left out for n = 1) and the options o
Given(o, shape, n) ==
    LET names == {"shape"}
                 \cup (IF n = 1 THEN {} ELSE {"iterations"})
                 \cup (IF o.direction = None THEN {} ELSE {"direction"})
                 \cup {k \in NumericOptions : o[k] # 0}
    IN  [k \in names |-> IF k = "shape" THEN shape
                         ELSE IF k = "iterations" THEN n ELSE o[k]]

\* a command line without its positional argument
WithoutShape(a) == [k \in DOMAIN a \ {"shape"} |-> a[k]]

\* command lines in the documented ranges
ValidArgvs == {Given(o, s, n) : o \in Options, s \in ShapeChoices, n \in 0..MaxIter}

\* command lines with a value outside its range, an unknown word or no shape
OtherArgvs ==
    {WithoutShape(Given(o, "circle", n)) : o \in Options, n \in 1..MaxIter}
    \cup {[shape |-> "circle", radius |-> v] : v \in {0, RadiusMin - 1, RadiusMax + 1}}
    \cup {[shape |-> "rectangle", rectwidth |-> v] : v \in {0, SideMin - 1, SideMax + 1}}
    \cup {[shape |-> "rectangle", rectheight |-> v] : v \in {0, SideMin - 1, SideMax + 1}}
    \cup {[shape |-> "triangle", base |-> v] : v \in {0, SideMin - 1, SideMax + 1}}
    \cup {[shape |-> "triangle", triheight |-> v] : v \in {0, SideMin - 1, SideMax + 1}}
    \cup {[shape |-> s, speed |-> v] : s \in ShapeChoices,
                                       v \in {0, SpeedMin - 1, SpeedMax + 1}}
    \cup {[shape |-> s, direction |-> "sideways"] : s \in ShapeChoices}
    \cup {[shape |-> "square"]}

\* the flags main computes from args at the top of every iteration
randFlag ==
    [direction |-> args.direction = None, radius |-> args.radius = 0,
     base |-> args.base = 0, triheight |-> args.triheight = 0,
     rectWidth |-> args.rectwidth = 0, rectHeight |-> args.rectheight = 0,
     speed |-> args.speed = 0]

NoCall == [fn |-> "none"]

\* no call of tf_utils is running
NoTf == [pc |-> "none"]

----------------------------------------------------------------------------
(* main *)

Init ==
    /\ argv \in ValidArgvs \cup OtherArgvs
    /\ args = <<>>
    /\ i = 0
    /\ pc = "parse"
    /\ locals = <<>>
    /\ figs = <<>>
    /\ call = NoCall
    /\ start = <<>>
    /\ patch = <<>>
    /\ rendered = <<>>
    /\ saved = <<>>
    /\ ani = NoAni
    /\ err = "none"
    /\ tf = NoTf

\* main(parser.parse_args()): the Namespace, or the parser's error and exit
Parse ==
    /\ pc = "parse"
    /\ \/ /\ Accepted(argv)
          /\ args' = parse_args(argv)
          /\ pc' = "loop"
          /\ err' = err
       \/ /\ ~Accepted(argv)
          /\ err' = "SystemExit"
          /\ pc' = "error"
          /\ args' = args
    /\ UNCHANGED <<argv, tf, ani, i, locals, figs, call, start, patch, rendered, saved>>

\* the top of an iteration: every parameter that is not pinned is drawn
DrawParameters ==
    /\ pc = "loop"
    /\ i < args.iterations
    /\ \E d \in RandomDirections,
          r \in randint(RadiusMin, RadiusMax),
          b \in randint(SideMin, SideMax),
          th \in randint(SideMin, SideMax),
          rw \in unread(SideMin, SideMax),
          rh \in unread(SideMin, SideMax),
          s \in randint(SpeedMin, SpeedMax) :
          LET drawn == [direction |-> d, radius |-> r, base |-> b, triheight |-> th,
                        rectWidth |-> rw, rectHeight |-> rh, speed |-> s]
              names == {n \in DOMAIN drawn : randFlag[n]}
          IN  locals' = [n \in DOMAIN locals \cup names |->
                            IF n \in names THEN drawn[n] ELSE locals[n]]
    /\ pc' = "figure"
    /\ UNCHANGED <<argv, tf, ani, args, i, figs, call, start, patch, rendered, saved, err>>

\* the diagonal quadrant drawn in the first iteration only
CreateFigure_once ==
    /\ pc = "figure"
    /\ figs' = Append(figs, i)
    /\ \E q \in (IF IsBound("diagonalDirection") THEN {locals.diagonalDirection}
                 ELSE 1..QuadrantMax),
          s \in (IF args.shape = None THEN ShapeChoices ELSE {args.shape}) :
          locals' = Bind(Bind(Bind(locals, "fig", i), "diagonalDirection", q), "shape", s)
    /\ pc' = "dispatch"
    /\ UNCHANGED <<argv, tf, ani, args, i, call, start, patch, rendered, saved, err>>

\* a new figure and axis, the diagonal quadrant and the shape of the run
CreateFigure ==
    /\ pc = "figure"
    /\ figs' = Append(figs, i)
    /\ \E q \in 1..QuadrantMax,
          s \in (IF args.shape = None THEN ShapeChoices ELSE {args.shape}) :
          locals' = Bind(Bind(Bind(locals, "fig", i), "diagonalDirection", q), "shape", s)
    /\ pc' = "dispatch"
    /\ UNCHANGED <<argv, tf, ani, args, i, call, start, patch, rendered, saved, err>>

\* the call of the shape function; its arguments are evaluated first
Dispatch ==
    /\ pc = "dispatch"
    /\ \/ /\ locals.shape = "circle"
          /\ \A n \in {"direction", "radius", "speed"} : IsBound(n)
          /\ call' = [fn |-> "circle", direction |-> locals.direction,
                      radius |-> locals.radius, speed |-> locals.speed, ind |-> i,
                      diagonalDirection |-> locals.diagonalDirection,
                      fig |-> locals.fig]
          /\ pc' = "circle"
          /\ UNCHANGED <<i, err>>
       \/ /\ locals.shape = "circle"
          /\ \E n \in {"direction", "radius", "speed"} : ~IsBound(n)
          /\ err' = "UnboundLocalError"
          /\ pc' = "error"
          /\ UNCHANGED <<i, call>>
       \/ /\ locals.shape = "triangle"
          /\ \A n \in {"direction", "base", "triheight", "speed"} : IsBound(n)
          /\ call' = [fn |-> "triangle", direction |-> locals.direction,
                      base |-> locals.base, height |-> locals.triheight,
                      speed |-> locals.speed, ind |-> i,
                      diagonalDirection |-> locals.diagonalDirection,
                      fig |-> locals.fig]
          /\ pc' = "triangle"
          /\ UNCHANGED <<i, err>>
       \/ /\ locals.shape = "triangle"
          /\ \E n \in {"direction", "base", "triheight", "speed"} : ~IsBound(n)
          /\ err' = "UnboundLocalError"
          /\ pc' = "error"
          /\ UNCHANGED <<i, call>>
       \/ /\ locals.shape \notin {"circle", "triangle"}
          /\ i' = i + 1
          /\ pc' = "loop"
          /\ UNCHANGED <<call, err>>
    /\ UNCHANGED <<argv, tf, ani, args, locals, figs, start, patch, rendered, saved>>

\* circle(): the starting position and the patch
CircleInit ==
    /\ pc = "circle"
    /\ \E o \in setpositioncircle(call.direction, call.radius, call.diagonalDirection) :
          \/ /\ o.exc = "none"
             /\ start' = o.pose
             /\ patch' = o.pose
             /\ pc' = "animate"
             /\ err' = err
          \/ /\ o.exc # "none"
             /\ err' = o.exc
             /\ pc' = "error"
             /\ UNCHANGED <<start, patch>>
    /\ UNCHANGED <<argv, tf, ani, args, i, locals, figs, call, rendered, saved>>

\* triangle(): the starting position and the patch
TriangleInit ==
    /\ pc = "triangle"
    /\ \E o \in setpositiontriangle(call.direction, call.base, call.height,
                                    call.diagonalDirection) :
          /\ o.exc = "none"
          /\ start' = o.pose
          /\ patch' = o.pose
          /\ pc' = "animate"
    /\ UNCHANGED <<argv, tf, ani, args, i, locals, figs, call, rendered, saved, err>>

\* circle(): FuncAnimation and ani.save for the direction
CircleAnimate ==
    /\ pc = "animate"
    /\ call.fn = "circle"
    /\ LET known == call.direction \in RandomDirections
           frames == [f \in 1..Frames |-> circle_update(call, start, f - 1)]
       IN  /\ rendered' = IF known THEN frames ELSE <<>>
           /\ patch' = IF known THEN frames[Frames] ELSE patch
           /\ saved' = IF known THEN Append(saved, call.ind) ELSE saved
           /\ ani' = IF known
                     THEN [name |-> circle_filename(call.ind, call.radius,
                                                    call.direction, call.speed),
                           fps |-> Fps, frames |-> Frames]
                     ELSE ani
    /\ pc' = "close"
    /\ UNCHANGED <<argv, tf, args, i, locals, figs, call, start, err>>

\* triangle(): FuncAnimation and ani.save for the direction
TriangleAnimate ==
    /\ pc = "animate"
    /\ call.fn = "triangle"
    /\ LET known == call.direction \in RandomDirections
           frames == [f \in 1..Frames |-> triangle_update(call, start, f - 1)]
       IN  /\ rendered' = IF known THEN frames ELSE <<>>
           /\ patch' = IF known THEN frames[Frames] ELSE patch
           /\ saved' = IF known THEN Append(saved, call.ind) ELSE saved
           /\ ani' = IF known
                     THEN [name |-> triangle_filename(call.ind, call.base, call.height,
                                                      call.direction, call.speed),
                           fps |-> Fps, frames |-> Frames]
                     ELSE ani
    /\ pc' = "close"
    /\ UNCHANGED <<argv, tf, args, i, locals, figs, call, start, err>>

\* plt.close() placed before the if/elif chain that animates and saves
Close_early ==
    /\ pc \in {"animate", "close"}
    /\ figs' = SubSeq(figs, 1, Len(figs) - 1)
    /\ call' = NoCall
    /\ start' = <<>>
    /\ patch' = <<>>
    /\ rendered' = <<>>
    /\ ani' = NoAni
    /\ i' = i + 1
    /\ pc' = "loop"
    /\ UNCHANGED <<argv, tf, args, locals, saved, err>>

\* plt.close() closes the current figure; the shape function returns to the loop
Close ==
    /\ pc = "close"
    /\ figs' = SubSeq(figs, 1, Len(figs) - 1)
    /\ call' = NoCall
    /\ start' = <<>>
    /\ patch' = <<>>
    /\ rendered' = <<>>
    /\ ani' = NoAni
    /\ i' = i + 1
    /\ pc' = "loop"
    /\ UNCHANGED <<argv, tf, args, locals, saved, err>>

\* range(args.iterations) is exhausted
Finish ==
    /\ pc = "loop"
    /\ i >= args.iterations
    /\ pc' = "done"
    /\ UNCHANGED <<argv, tf, ani, args, i, locals, figs, call, start, patch, rendered, saved, err>>

Next ==
    \/ Parse
    \/ DrawParameters
    \/ CreateFigure
    \/ Dispatch
    \/ CircleInit
    \/ TriangleInit
    \/ CircleAnimate
    \/ TriangleAnimate
    \/ Close
    \/ Finish

Spec == Init /\ [][Next]_vars

----------------------------------------------------------------------------
(* circle() and triangle() on their own: the arguments main can pass *)

ShapeRadii == Sample(RadiusMin, RadiusMax, NShape) \cup {20}
ShapeBases == Sample(SideMin, SideMax, NShape) \cup {30}
ShapeHeights == Sample(SideMin, SideMax, NShape) \cup {40}
ShapeSpeeds == Sample(SpeedMin, SpeedMax, NShape) \cup {50}

\* main's state at the entry of the shape function, first iteration, nothing pinned
Entered(shape, d, q, r, b, h, s) ==
    /\ argv = Given(NoOptions, shape, 1)
    /\ args = Namespace(NoOptions, shape, 1)
    /\ i = 0
    /\ pc = shape
    /\ locals = [direction |-> d, radius |-> r, base |-> b, triheight |-> h,
                 rectWidth |-> SideMax, rectHeight |-> SideMax, speed |-> s,
                 fig |-> 0, diagonalDirection |-> q, shape |-> shape]
    /\ figs = <<0>>
    /\ call = IF shape = "circle"
              THEN [fn |-> "circle", direction |-> d, radius |-> r, speed |-> s,
                    ind |-> 0, diagonalDirection |-> q, fig |-> 0]
              ELSE [fn |-> "triangle", direction |-> d, base |-> b, height |-> h,
                    speed |-> s, ind |-> 0, diagonalDirection |-> q, fig |-> 0]
    /\ start = <<>>
    /\ patch = <<>>
    /\ rendered = <<>>
    /\ saved = <<>>
    /\ ani = NoAni
    /\ err = "none"
    /\ tf = NoTf

InitShape ==
    \E d \in RandomDirections, q \in 1..QuadrantMax, s \in ShapeSpeeds :
        \/ \E r \in ShapeRadii : Entered("circle", d, q, r, SideMax, SideMax, s)
        \/ \E b \in ShapeBases, h \in ShapeHeights :
               Entered("triangle", d, q, RadiusMax, b, h, s)

NextShape ==
    \/ CircleInit
    \/ TriangleInit
    \/ CircleAnimate
    \/ TriangleAnimate
    \/ Close
    \/ Finish

SpecShape == InitShape /\ [][NextShape]_vars

----------------------------------------------------------------------------
(* GANimation/tf_utils.py: download_ucf_101_subset *)

MaxFolders == 2     \* folder entries at the head of the archive listing
MaxClasses == 2     \* classes in the archive, and num_classes
MaxVideos == 2      \* videos of each class
MaxCount == 2       \* the count of a split

UcfClasses == <<"Archery", "Biking", "Diving", "Fencing">>
SplitNames == <<"train", "val", "test">>

\* an archive entry: the number of components of its normalised path and the
\* pieces of its name between underscores
Groups == <<"g01", "g02", "g03", "g04">>
Video(cls, g) == [tokens |-> 3, parts |-> <<"UCF101/train/v", cls, Groups[g], "c01.avi">>]
FolderNames == <<"UCF101", "UCF101/train", "UCF101/test", "UCF101/val">>
Folder(k) == [tokens |-> Min(k, 2), parts |-> <<FolderNames[k]>>]

\* the archive listing: d folder entries, then v videos of each of c classes
Listing(d, c, v) ==
    [k \in 1..d |-> Folder(k)]
        \o [k \in 1..(c * v) |-> Video(UcfClasses[((k - 1) \div v) + 1], ((k - 1) % v) + 1)]

\* a dict, in insertion order, as a sequence of <<key, value>>
Keys(d) == [k \in DOMAIN d |-> d[k][1]]
HasKey(d, key) == \E k \in DOMAIN d : d[k][1] = key
Get(d, key) == d[CHOOSE k \in DOMAIN d : d[k][1] = key][2]
Put(d, key, value) ==
    IF HasKey(d, key)
    THEN [k \in DOMAIN d |-> IF d[k][1] = key THEN <<key, value>> ELSE d[k]]
    ELSE Append(d, <<key, value>>)

\* the slices l[:n] and l[n:]
Take(l, n) == SubSeq(l, 1, Min(n, Len(l)))
Drop(l, n) == SubSeq(l, Min(n, Len(l)) + 1, Len(l))

\* list.remove(x): the list without the first element equal to x
ListRemove(l, x) ==
    LET at == CHOOSE k \in DOMAIN l : l[k] = x /\ \A j \in 1..(k - 1) : l[j] # x
    IN  SubSeq(l, 1, at - 1) \o SubSeq(l, at + 1, Len(l))

\* for f in files: if len(tokens) <= 2: files.remove(f), the iterator at index idx
RECURSIVE FilterFrom(_, _)
FilterFrom(files, idx) ==
    IF idx > Len(files) THEN files
    ELSE IF files[idx].tokens <= 2
         THEN FilterFrom(ListRemove(files, files[idx]), idx + 1)
         ELSE FilterFrom(files, idx + 1)

\* fname.split("_")[-3], where there is such a piece
HasClass(f) == Len(f.parts) >= 3
get_class(f) == f.parts[Len(f.parts) - 2]

\* files_for_class[get_class(fname)].append(fname) for the files from index idx on
RECURSIVE get_files_per_class(_, _, _)
get_files_per_class(files, idx, d) ==
    IF idx > Len(files) THEN d
    ELSE LET cls == get_class(files[idx])
             sofar == IF HasKey(d, cls) THEN Get(d, cls) ELSE <<>>
         IN  get_files_per_class(files, idx + 1, Put(d, cls, Append(sofar, files[idx])))

\* split_files after the loop over the classes from index idx on
RECURSIVE SplitFiles(_, _, _)
SplitFiles(d, count, idx) ==
    IF idx > Len(d) THEN <<>>
    ELSE Take(d[idx][2], count) \o SplitFiles(d, count, idx + 1)

\* split_class_lists with the remainder assigned inside the loop, for every class
split_class_lists_each(d, count) ==
    [exc |-> "none",
     split_files |-> SplitFiles(d, count, 1),
     remainder |-> [k \in DOMAIN d |-> <<d[k][1], Drop(d[k][2], count)>>]]

\* split_class_lists: the remainder is assigned after the loop, for the last cls
split_class_lists(d, count) ==
    IF d = <<>>
    THEN [exc |-> "UnboundLocalError", split_files |-> <<>>, remainder |-> <<>>]
    ELSE [exc |-> "none",
          split_files |-> SplitFiles(d, count, 1),
          remainder |-> << <<d[Len(d)][1], Drop(d[Len(d)][2], count)>> >>]

\* the permutations of a list, which random.shuffle chooses among
Shuffles(l) ==
    {[k \in DOMAIN l |-> l[p[k]]] :
        p \in {q \in [DOMAIN l -> DOMAIN l] : \A a, b \in DOMAIN l : q[a] = q[b] => a = b}}

\* the ways lines 152-156 can leave files_for_class: the first n classes, shuffled
RECURSIVE ShuffledClasses(_, _, _)
ShuffledClasses(d, n, idx) ==
    IF idx > Min(n, Len(d)) THEN {<<>>}
    ELSE {<< <<d[idx][1], l>> >> \o rest :
            l \in Shuffles(d[idx][2]), rest \in ShuffledClasses(d, n, idx + 1)}

\* the splits argument: the first m split names, each with a count
SplitsOf(m) ==
    {[k \in 1..m |-> <<SplitNames[k], c[k]>>] : c \in [1..m -> 1..MaxCount]}

\* download_dir / split_name
SplitDir(name) == <<"download_dir", name>>

\* the call of download_ucf_101_subset after list_files_from_zip_url
UcfCall(files, num_classes, splits) ==
    [pc |-> "filter", listing |-> files, files |-> files, num_classes |-> num_classes, splits |-> splits,
     files_for_class |-> <<>>, k |-> 0, split_name |-> None, split_count |-> 0,
     given |-> <<>>, split_files |-> <<>>, downloads |-> <<>>, dirs |-> <<>>,
     exc |-> "none"]

InitUcf ==
    /\ \E d \in 0..MaxFolders, c \in 0..MaxClasses, v \in 1..MaxVideos,
          n \in 1..MaxClasses, m \in 0..Len(SplitNames) :
          \E splits \in SplitsOf(m) : tf = UcfCall(Listing(d, c, v), n, splits)
    /\ argv = <<>>
    /\ args = <<>>
    /\ i = 0
    /\ pc = "none"
    /\ locals = <<>>
    /\ figs = <<>>
    /\ call = NoCall
    /\ start = <<>>
    /\ patch = <<>>
    /\ rendered = <<>>
    /\ saved = <<>>
    /\ ani = NoAni
    /\ err = "none"

dataset == <<argv, args, i, pc, locals, figs, call, start, patch, rendered, saved, ani, err>>

\* lines 141-146: the loop that removes the short entries from files
FilterFiles ==
    /\ tf.pc = "filter"
    /\ tf' = [tf EXCEPT !.pc = "classes", !.files = FilterFrom(tf.files, 1)]
    /\ UNCHANGED dataset

\* lines 148-156: the files of each class, the first num_classes classes, shuffled
SelectClasses ==
    /\ tf.pc = "classes"
    /\ \/ /\ \E k \in DOMAIN tf.files : ~HasClass(tf.files[k])
          /\ tf' = [tf EXCEPT !.pc = "error", !.exc = "IndexError"]
       \/ /\ \A k \in DOMAIN tf.files : HasClass(tf.files[k])
          /\ \E d \in ShuffledClasses(get_files_per_class(tf.files, 1, <<>>),
                                      tf.num_classes, 1) :
                tf' = [tf EXCEPT !.pc = "splits", !.files_for_class = d]
    /\ UNCHANGED dataset

\* lines 159-160: one turn of the loop over splits.items(), which prints the name
PrintSplit ==
    /\ tf.pc = "splits"
    /\ tf.k < Len(tf.splits)
    /\ tf' = [tf EXCEPT !.k = tf.k + 1,
                        !.split_name = tf.splits[tf.k + 1][1],
                        !.split_count = tf.splits[tf.k + 1][2]]
    /\ UNCHANGED dataset

\* lines 161-166, after the loop: split, download, dirs[split_name], return dirs
DownloadSplit ==
    /\ tf.pc = "splits"
    /\ tf.k = Len(tf.splits)
    /\ LET out == split_class_lists(tf.files_for_class, tf.split_count)
       IN  \/ /\ tf.split_name = None \/ out.exc # "none"
              /\ tf' = [tf EXCEPT !.pc = "error", !.exc = "UnboundLocalError"]
           \/ /\ tf.split_name # None
              /\ out.exc = "none"
              /\ tf' = [tf EXCEPT
                          !.pc = "done",
                          !.given = tf.files_for_class,
                          !.split_files = out.split_files,
                          !.files_for_class = out.remainder,
                          !.downloads = Append(tf.downloads,
                                               [to_dir |-> SplitDir(tf.split_name),
                                                file_names |-> out.split_files]),
                          !.dirs = Put(tf.dirs, tf.split_name, SplitDir(tf.split_name))]
    /\ UNCHANGED dataset

NextUcf ==
    \/ FilterFiles
    \/ SelectClasses
    \/ PrintSplit
    \/ DownloadSplit

SpecUcf == InitUcf /\ [][NextUcf]_vars

----------------------------------------------------------------------------
(* GANimation/tf_utils.py: frames_from_video_file *)

MaxLength == 6      \* frames of the video
MaxFrames == 3      \* n_frames
MaxStep == 3        \* frame_step

\* np.zeros_like(result[0]), where a frame is the index of the source frame
Zeros == -1

\* src.read() at position pos of a video of video_length frames
read(pos, video_length) ==
    IF pos < video_length
    THEN [ret |-> TRUE, frame |-> pos, pos |-> pos + 1]
    ELSE [ret |-> FALSE, frame |-> None, pos |-> pos]

\* for _ in range(frame_step): ret, frame = src.read(), from the last read r
RECURSIVE ReadTimes(_, _, _)
ReadTimes(r, times, video_length) ==
    IF times = 0 THEN r ELSE ReadTimes(read(r.pos, video_length), times - 1, video_length)

need_length(n_frames, frame_step) == 1 + (n_frames - 1) * frame_step

\* the values start can take: 0, or random.randint(0, max_start + 1), both ends included
StartChoices(video_length, need) ==
    IF need > video_length THEN {0} ELSE 0..((video_length - need) + 1)

\* the call frames_from_video_file(video_path, n_frames, frame_step=frame_step)
FramesCall(video_length, n_frames, frame_step) ==
    [pc |-> "start", video_length |-> video_length, n_frames |-> n_frames,
     frame_step |-> frame_step, start |-> 0, pos |-> 0, ret |-> FALSE, turns |-> 0,
     result |-> <<>>, exc |-> "none"]

InitFrames ==
    /\ \E l \in 0..MaxLength, n \in 1..MaxFrames, st \in 1..MaxStep :
          tf = FramesCall(l, n, st)
    /\ argv = <<>>
    /\ args = <<>>
    /\ i = 0
    /\ pc = "none"
    /\ locals = <<>>
    /\ figs = <<>>
    /\ call = NoCall
    /\ start = <<>>
    /\ patch = <<>>
    /\ rendered = <<>>
    /\ saved = <<>>
    /\ ani = NoAni
    /\ err = "none"

\* lines 199-211: the start, and src.set(cv2.CAP_PROP_POS_FRAMES, start)
ChooseStart ==
    /\ tf.pc = "start"
    /\ \E s \in StartChoices(tf.video_length, need_length(tf.n_frames, tf.frame_step)) :
          tf' = [tf EXCEPT !.pc = "first", !.start = s, !.pos = s]
    /\ UNCHANGED dataset

\* lines 213-214: the first read; format_frames raises on the None of a failed read
ReadFirst ==
    /\ tf.pc = "first"
    /\ LET r == read(tf.pos, tf.video_length)
       IN  \/ /\ r.ret
              /\ tf' = [tf EXCEPT !.pc = "frames", !.ret = TRUE, !.pos = r.pos,
                                  !.result = <<r.frame>>]
           \/ /\ ~r.ret
              /\ tf' = [tf EXCEPT !.pc = "raised", !.exc = "ValueError"]
    /\ UNCHANGED dataset

\* lines 216-223: one turn of the loop over range(n_frames - 1)
ReadNext ==
    /\ tf.pc = "frames"
    /\ tf.turns < tf.n_frames - 1
    /\ LET r == ReadTimes([ret |-> tf.ret, frame |-> None, pos |-> tf.pos],
                          tf.frame_step, tf.video_length)
       IN  tf' = [tf EXCEPT !.turns = tf.turns + 1, !.ret = r.ret, !.pos = r.pos,
                            !.result = Append(tf.result,
                                              IF r.ret THEN r.frame ELSE Zeros)]
    /\ UNCHANGED dataset

\* lines 224-227: src.release() and the return of the frames
ReturnFrames ==
    /\ tf.pc = "frames"
    /\ tf.turns = tf.n_frames - 1
    /\ tf' = [tf EXCEPT !.pc = "returned"]
    /\ UNCHANGED dataset

NextFrames ==
    \/ ChooseStart
    \/ ReadFirst
    \/ ReadNext
    \/ ReturnFrames

SpecFrames == InitFrames /\ [][NextFrames]_vars

----------------------------------------------------------------------------
(* Properties *)

Animated == Len(rendered) = Frames

InCanvas(c) == 0 <= c /\ c <= Canvas * Scale

\* the whole shape at a pose is on the canvas
OnCanvas(c, pose) ==
    IF c.fn = "circle"
    THEN \A axis \in 1..2 :
            /\ InCanvas(pose[1][axis] - c.radius * Scale)
            /\ InCanvas(pose[1][axis] + c.radius * Scale)
    ELSE \A k \in 1..3, axis \in 1..2 : InCanvas(pose[k][axis])

\* the move of point k from frame f - 1 to frame f (f indexes rendered)
StepX(f, k) == rendered[f + 1][k][1] - rendered[f][k][1]
StepY(f, k) == rendered[f + 1][k][2] - rendered[f][k][2]

\* C1: every pose of a run, the starting pose and the pose of each frame 0..49,
\* keeps the whole shape on the 256 x 256 canvas: the circle's centre minus and
\* plus its radius, and every vertex of the triangle, are within [0, 256].
C1_BoundsInvariant ==
    /\ start # <<>> => OnCanvas(call, start)
    /\ patch # <<>> => OnCanvas(call, patch)
    /\ \A f \in DOMAIN rendered : OnCanvas(call, rendered[f])

\* a circle of the largest radius at full speed ends 3 units from the right edge
C1_Witness ==
    /\ Animated
    /\ call.fn = "circle"
    /\ call.radius = RadiusMax
    /\ call.speed = SpeedMax
    /\ call.direction = "right"
    /\ rendered[Frames][1][1] + call.radius * Scale = 253 * Scale

\* C2: whenever circle() or triangle() has been entered, every outcome of its
\* placement solver is a starting pose, none is an exception.
C2_SolverTotal ==
    /\ pc = "circle" =>
          \A o \in setpositioncircle(call.direction, call.radius,
                                     call.diagonalDirection) : o.exc = "none"
    /\ pc = "triangle" =>
          \A o \in setpositiontriangle(call.direction, call.base, call.height,
                                       call.diagonalDirection) : o.exc = "none"

\* the parameters the shape function of a run is called with
ShapeParameters(shape) ==
    CASE shape = "circle" -> {"direction", "radius", "speed"}
      [] shape = "triangle" -> {"direction", "base", "triheight", "speed"}
      [] OTHER -> {}

\* C3: when main is about to call the shape function, each of its parameters is
\* defined, and a parameter pinned on the command line has the supplied value.
C3_PinnedValueUsed ==
    pc = "dispatch" =>
        \A n \in ShapeParameters(locals.shape) :
            /\ IsBound(n)
            /\ ~randFlag[n] => locals[n] = args[n]

\* C4: a batch that ran to its end has saved one file per run index 0..N-1.
C4_OneArtifactPerRun ==
    pc = "done" => saved = [k \in 1..args.iterations |-> k - 1]

\* C5: at most one figure is open at any time, none is open when the figure of
\* a run is about to be created, and none is left open when the batch ends.
C5_FigureScopedToRun ==
    /\ Len(figs) <= 1
    /\ pc \in {"figure", "done"} => figs = <<>>

\* C6: the pose the update function sets at frame 0 is the starting pose.
C6_ContinuityAtOrigin ==
    Animated => rendered[1] = start

C6_Witness ==
    /\ Animated
    /\ call.fn = "triangle"
    /\ call.direction = "diagonal"
    /\ call.speed = SpeedMax
    /\ rendered[2] # start

\* C7 as stated: between any two consecutive frames every point of the shape
\* moves by a vector of length (speed / 100) * 2.0, whatever the direction.
C7_UnitStepEveryDirection ==
    Animated =>
        \A f \in 1..(Frames - 1), k \in DOMAIN start :
            StepX(f, k) * StepX(f, k) + StepY(f, k) * StepY(f, k)
                = (call.speed * 2) * (call.speed * 2)

\* C7 amended: for right, left, up and down the move between consecutive frames
\* has length (speed / 100) * 2.0; for diagonal it is (speed / 100) * 2.0 along
\* each of the two axes; in both cases it is the same for every f.
C7_StepPerAxis ==
    Animated =>
        \A f \in 1..(Frames - 1), k \in DOMAIN start :
            IF call.direction = "diagonal"
            THEN /\ Abs(StepX(f, k)) = call.speed * 2
                 /\ Abs(StepY(f, k)) = call.speed * 2
            ELSE StepX(f, k) * StepX(f, k) + StepY(f, k) * StepY(f, k)
                     = (call.speed * 2) * (call.speed * 2)

C7_Witness ==
    /\ Animated
    /\ call.direction = "diagonal"
    /\ call.speed = SpeedMin
    /\ StepX(1, 1) * StepX(1, 1) + StepY(1, 1) * StepY(1, 1) = 2 * (40 * 40)

\* the signs of the quadrants: 1 = (+x,+y), 2 = (+x,-y), 3 = (-x,-y), 4 = (-x,+y)
SignX(q) == IF q \in {1, 2} THEN 1 ELSE -1
SignY(q) == IF q \in {1, 4} THEN 1 ELSE -1

\* the circle's diagonal() of every quadrant, from every starting centre a
\* circle is given: the move from frame f to frame f + 1
C8_CircleDiagonal ==
    (call.fn = "circle" /\ start # <<>>) =>
        \A q \in 1..QuadrantMax, f \in 0..(Frames - 2) :
            LET a == circle_diagonal(start[1][1], start[1][2], call.speed, q, f)
                b == circle_diagonal(start[1][1], start[1][2], call.speed, q, f + 1)
            IN  /\ b[1][1] - a[1][1] = SignX(q) * (call.speed * 2)
                /\ b[1][2] - a[1][2] = SignY(q) * (call.speed * 2)

\* C8: in diagonal motion every point moves between consecutive frames by the
\* same amount along x and along y, signed by the quadrant; in quadrant 3 at
\* speed 50 every point is at (-10, -10) from its start at frame 10.
C8_DiagonalSigns ==
    /\ C8_CircleDiagonal
    /\ (Animated /\ call.direction = "diagonal") =>
        /\ \A f \in 1..(Frames - 1), k \in DOMAIN start :
              /\ StepX(f, k) = SignX(call.diagonalDirection) * (call.speed * 2)
              /\ StepY(f, k) = SignY(call.diagonalDirection) * (call.speed * 2)
        /\ (call.diagonalDirection = 3 /\ call.speed = 50) =>
              \A k \in DOMAIN start :
                  /\ rendered[11][k][1] - start[k][1] = -(10 * Scale)
                  /\ rendered[11][k][2] - start[k][2] = -(10 * Scale)

C8_Witness ==
    /\ Animated
    /\ call.fn = "triangle"
    /\ call.direction = "diagonal"
    /\ call.diagonalDirection = 3
    /\ call.speed = 50
    /\ call.base = 30
    /\ call.height = 40

\* C9: at the start and at every frame the triangle has the shape the solver
\* gave it (x2 - x1 = base, y2 = y1, x3 = x1 + base / 2, y3 - y1 = height), and
\* the three vertices of a frame are the starting ones moved by one vector.
C9_RigidTranslation ==
    call.fn = "triangle" =>
        \A p \in {start, patch} \cup {rendered[f] : f \in DOMAIN rendered} :
            p # <<>> =>
                /\ p[2][1] - p[1][1] = call.base * Scale
                /\ p[2][2] = p[1][2]
                /\ 2 * (p[3][1] - p[1][1]) = call.base * Scale
                /\ p[3][2] - p[1][2] = call.height * Scale
                /\ \A k \in 2..3, axis \in 1..2 :
                      p[k][axis] - start[k][axis] = p[1][axis] - start[1][axis]

C9_Witness ==
    /\ Animated
    /\ call.fn = "triangle"
    /\ call.direction = "left"
    /\ call.base = SideMax
    /\ rendered[Frames][1][1] < start[1][1]

\* the run of the scenario: a circle of radius 20 moving right at speed 100
CircleRightScenario ==
    /\ Animated
    /\ call.fn = "circle"
    /\ call.radius = 20
    /\ call.direction = "right"
    /\ call.speed = 100

\* C10 as stated: in the scenario the centre at frame 49 is 98 units right of
\* the start, at the same height, and its x is at most 155.
C10_ScenarioAsStated ==
    CircleRightScenario =>
        /\ rendered[Frames][1][1] - start[1][1] = 98 * Scale
        /\ rendered[Frames][1][2] = start[1][2]
        /\ rendered[Frames][1][1] <= 155 * Scale

\* C10 amended: in the scenario the centre at frame 49 is 98 units right of the
\* start, at the same height; the start x is at most 135, so that the centre's
\* x at frame 49 is at most 233 and the circle's right edge at most 253.
C10_ScenarioAmended ==
    CircleRightScenario =>
        /\ rendered[Frames][1][1] - start[1][1] = 98 * Scale
        /\ rendered[Frames][1][2] = start[1][2]
        /\ start[1][1] <= 135 * Scale
        /\ rendered[Frames][1][1] <= 233 * Scale

C10_Witness ==
    /\ CircleRightScenario
    /\ rendered[Frames][1][1] = 233 * Scale

\* how far the first point of pose f of a sequence of frames is from where it started
Travel(frames, f) ==
    Abs(frames[f][1][1] - frames[1][1][1]) + Abs(frames[f][1][2] - frames[1][1][2])

\* C11: within one run the update function is applied to the frames 0..49 in
\* increasing order (50 poses, the first at the start, each further along than
\* the one before), the animation is then saved once at 25 frames per second
\* while the figure is still open, and only then is the figure closed; no frame is
\* rendered and no file is written after the save.
C11_SessionOrder ==
    [][/\ (pc = "animate" /\ pc' = "close") =>
            /\ Len(rendered') = Frames
            /\ rendered'[1] = start
            /\ \A f \in 1..(Frames - 1) : Travel(rendered', f + 1) > Travel(rendered', f)
            /\ saved' = Append(saved, call.ind)
            /\ ani'.frames = Frames
            /\ ani'.fps = Fps
            /\ figs' = figs
            /\ Len(figs) = 1
       /\ (rendered' # rendered /\ rendered' # <<>>) => pc = "animate"
       /\ saved' # saved => pc = "animate"
       /\ figs' # figs =>
            /\ pc = "close"
            /\ figs' = <<>>
            /\ Len(rendered) = Frames
            /\ ani.fps = Fps
            /\ saved # <<>>
            /\ saved[Len(saved)] = call.ind]_vars

C11_Witness ==
    /\ pc = "close"
    /\ Animated
    /\ ani.fps = Fps
    /\ ani.frames = Frames
    /\ saved = <<call.ind>>
    /\ Len(figs) = 1
    /\ Travel(rendered, Frames) = (Frames - 1) * call.speed * 2

\* the pieces of a name between the occurrences of the character c
RECURSIVE Split(_, _)
Split(s, c) ==
    IF s = <<>> THEN << <<>> >>
    ELSE LET rest == Split(Tail(s), c)
         IN  IF Head(s) = c THEN << <<>> >> \o rest
             ELSE << <<Head(s)>> \o rest[1] >> \o Tail(rest)

\* the number a sequence of digits writes
RECURSIVE Num(_)
Num(s) ==
    IF s = <<>> THEN 0
    ELSE Num(SubSeq(s, 1, Len(s) - 1)) * 10
            + (CHOOSE k \in 0..9 : Digits[k + 1] = s[Len(s)])

\* the fields read back from a file name
Decode(name) ==
    LET part == Split(name, "-")
        shape == IF part[2] = <<"c">> THEN "circle" ELSE "triangle"
        sides == Split(Tail(part[3]), "h")
    IN  [ind |-> Num(part[1]),
         shape |-> shape,
         size |-> [k \in DOMAIN sides |-> Num(sides[k])],
         direction |-> CHOOSE d \in RandomDirections : DirectionCode(d) = part[4],
         speed |-> Num(Split(part[5], ".")[1])]

\* the name the shape function of the fields t gives its file
Encode(t) ==
    IF t.shape = "circle"
    THEN circle_filename(t.ind, t.size[1], t.direction, t.speed)
    ELSE triangle_filename(t.ind, t.size[1], t.size[2], t.direction, t.speed)

\* the fields of the running call
Fields(c) ==
    [ind |-> c.ind,
     shape |-> c.fn,
     size |-> IF c.fn = "circle" THEN <<c.radius>> ELSE <<c.base, c.height>>,
     direction |-> c.direction,
     speed |-> c.speed]

\* run indices of one to four digits, sizes and speeds whose digits could run together
NameIndices == {0, 1, 7, 10, 11, 100, 101, 999, 1000}
NameSizes == {10, 11, 51, 75, 77}
NameSpeeds == {20, 21, 75, 77, 100}

NameFields ==
    [ind : NameIndices, shape : {"circle"}, size : {<<r>> : r \in NameSizes},
     direction : RandomDirections, speed : NameSpeeds]
    \cup [ind : NameIndices, shape : {"triangle"},
          size : {<<b, h>> : b \in NameSizes \ {77}, h \in NameSizes \ {77}},
          direction : RandomDirections, speed : NameSpeeds]

\* the names of all these fields differ and decode to their fields
NamesDistinct == Cardinality({Encode(t) : t \in NameFields}) = Cardinality(NameFields)
NamesDecode == \A t \in NameFields : Decode(Encode(t)) = t

\* C12: the file name determines the run index, the shape, the sizes, the
\* direction and the speed: the name of every run decodes to the parameters of
\* its call, and different parameter tuples have different names.
C12_NameDecodes ==
    /\ ani.name # <<>> =>
            /\ ani.name = Encode(Fields(call))
            /\ Decode(ani.name) = Fields(call)
    /\ NamesDistinct
    /\ NamesDecode

C12_Witness ==
    /\ pc = "close"
    /\ call.fn = "triangle"
    /\ call.direction = "down"
    /\ ani.name = <<"0", "0", "0", "-", "t", "-", "b", "7", "5", "h", "1", "0",
                    "-", "d", "w", "n", "-", "1", "0", "0", ".", "g", "i", "f">>

\* C13: whenever circle() or triangle() runs, the radius is in 10..77, base and
\* height are in 10..75 and the speed is in 20..100; every size and speed main
\* has drawn, the rectangle's included, is in its range, and none is 0.
C13_ParametersInRange ==
    /\ call.fn = "circle" => call.radius \in 10..77 /\ call.speed \in 20..100
    /\ call.fn = "triangle" =>
            /\ call.base \in 10..75
            /\ call.height \in 10..75
            /\ call.speed \in 20..100
    /\ IsBound("radius") => locals.radius \in 10..77
    /\ \A n \in {"base", "triheight", "rectWidth", "rectHeight"} :
            IsBound(n) => locals[n] \in 10..75
    /\ IsBound("speed") => locals.speed \in 20..100

C13_Witness ==
    /\ pc = "animate"
    /\ i = 1
    /\ call.fn = "circle"
    /\ start # <<>>
    /\ call.radius \in 10..77
    /\ call.speed \in 20..100
    /\ locals.rectWidth \in 10..75

\* the command line was accepted
Parsed == DOMAIN args # {}

\* C14: when the direction is not pinned, at the top of every iteration each of
\* right, left, up, down and diagonal can be drawn, whatever the iteration before
\* drew, and the direction of the run is never anything else.
C14_DirectionDrawn ==
    (Parsed /\ args.direction = None) =>
        /\ (pc = "loop" /\ i < args.iterations) =>
                \A d \in {"right", "left", "up", "down", "diagonal"} :
                    ENABLED (DrawParameters /\ locals'.direction = d)
        /\ IsBound("direction") =>
                locals.direction \in {"right", "left", "up", "down", "diagonal"}

C14_Witness ==
    /\ pc = "loop"
    /\ i = 1
    /\ i < args.iterations
    /\ args.direction = None
    /\ locals.direction = "left"
    /\ ENABLED (DrawParameters /\ locals'.direction = "diagonal")

\* C15: in every iteration, whether or not the direction is pinned and whatever
\* it is, each of the quadrants 1..4 can be drawn, whatever the iteration before
\* drew, and the quadrant is never anything else.
C15_QuadrantDrawn ==
    /\ pc = "figure" =>
            \A q \in 1..4 : ENABLED (CreateFigure /\ locals'.diagonalDirection = q)
    /\ IsBound("diagonalDirection") => locals.diagonalDirection \in 1..4

C15_Witness ==
    /\ pc = "figure"
    /\ i = 1
    /\ args.direction = "up"
    /\ locals.diagonalDirection = 3
    /\ ENABLED (CreateFigure /\ locals'.diagonalDirection = 1)

\* C16: a command line that leaves out the shape is accepted, its shape is None
\* and the batch runs.
C16_ShapeMayBeOmitted ==
    ("shape" \notin DOMAIN argv /\ pc # "parse") =>
        /\ err # "SystemExit"
        /\ args.shape = None

\* a size or speed of the command line lies outside its documented range
OutOfRange(a) ==
    \/ "radius" \in DOMAIN a /\ a.radius \notin 10..77
    \/ \E o \in {"rectwidth", "rectheight", "base", "triheight"} \cap DOMAIN a :
            a[o] \notin 10..75
    \/ "speed" \in DOMAIN a /\ a.speed \notin 20..100

\* C17: a command line with a radius outside 10..77, a width, height or base
\* outside 10..75 or a speed outside 20..100, an explicit 0 included, ends in
\* the parser's error: main is never entered, no figure is created, no frame
\* is rendered and no file is saved.
C17_OutOfRangeRejected ==
    OutOfRange(argv) =>
        /\ pc \in {"parse", "error"}
        /\ pc = "error" => err = "SystemExit"
        /\ ~Parsed
        /\ figs = <<>>
        /\ rendered = <<>>
        /\ saved = <<>>
        /\ call = NoCall

C17_Witness ==
    /\ pc = "error"
    /\ err = "SystemExit"
    /\ "radius" \in DOMAIN argv
    /\ argv.radius = 0
    /\ figs = <<>>
    /\ saved = <<>>

\* C18: the direction of an accepted command line is one of right, left, up,
\* down and diagonal, or was not given.
C18_FiveDirectionsAccepted ==
    Parsed => args.direction \in {"right", "left", "up", "down", "diagonal", None}

\* the elements of a list
Elements(l) == {l[k] : k \in DOMAIN l}

\* C19: for every class given to split_class_lists, the first count files of the
\* class are in the returned list, the returned remainder maps the class to its
\* files after the first count, and no file is in both.
C19_EveryClassSplit ==
    tf.pc = "done" =>
        \A k \in DOMAIN tf.given :
            LET cls == tf.given[k][1]
                files == tf.given[k][2]
                n == Min(tf.split_count, Len(files))
            IN  /\ \A j \in 1..n : files[j] \in Elements(tf.split_files)
                /\ HasKey(tf.files_for_class, cls)
                /\ Get(tf.files_for_class, cls) = SubSeq(files, n + 1, Len(files))
                /\ \A j \in (n + 1)..Len(files) : files[j] \notin Elements(tf.split_files)

\* C20: when download_ucf_101_subset returns, every split name of splits has one
\* entry in dirs and one download, of split_count files of every class that has
\* them, and no file was downloaded for two splits.
C20_EverySplitDownloaded ==
    tf.pc = "done" =>
        /\ \A k \in DOMAIN tf.splits :
                LET name == tf.splits[k][1]
                    mine == {j \in DOMAIN tf.downloads :
                                tf.downloads[j].to_dir = SplitDir(name)}
                IN  /\ HasKey(tf.dirs, name)
                    /\ Cardinality(mine) = 1
                    /\ \A j \in mine :
                            Len(tf.downloads[j].file_names)
                                <= tf.splits[k][2] * tf.num_classes
        /\ \A a, b \in DOMAIN tf.downloads :
                a # b => Elements(tf.downloads[a].file_names)
                             \cap Elements(tf.downloads[b].file_names) = {}

\* the sign of the motion along x and along y: 1, -1, or 0 for no motion
MotionX(direction, q) ==
    CASE direction = "right" -> 1
      [] direction = "left" -> -1
      [] direction = "diagonal" -> SignX(q)
      [] OTHER -> 0
MotionY(direction, q) ==
    CASE direction = "up" -> 1
      [] direction = "down" -> -1
      [] direction = "diagonal" -> SignY(q)
      [] OTHER -> 0

\* the coordinate c of a centre lies in the interval of the spec for a shape of
\* extent r moving with the given sign along the axis
InCircleInterval(c, r, sign) ==
    CASE sign = 1 -> r * Scale <= c /\ c <= (155 - r) * Scale
      [] sign = -1 -> (256 - 155 + r) * Scale <= c /\ c <= (256 - r) * Scale
      [] OTHER -> r * Scale <= c /\ c <= (256 - r) * Scale

\* C22: for every direction, quadrant and radius, setpositioncircle returns a
\* centre, whose coordinate along an axis of + motion is in [r, 155 - r], along an
\* axis of - motion in [256 - 155 + r, 256 - r] and along an axis without motion
\* in [r, 256 - r].
C22_CircleIntervals ==
    pc = "circle" =>
        \A o \in setpositioncircle(call.direction, call.radius, call.diagonalDirection) :
            /\ o.exc = "none"
            /\ InCircleInterval(o.pose[1][1], call.radius,
                                MotionX(call.direction, call.diagonalDirection))
            /\ InCircleInterval(o.pose[1][2], call.radius,
                                MotionY(call.direction, call.diagonalDirection))

\* the bounding box of a pose of three vertices
BoxLo(pose, axis) == Min(pose[1][axis], Min(pose[2][axis], pose[3][axis]))
BoxHi(pose, axis) == Max(pose[1][axis], Max(pose[2][axis], pose[3][axis]))

\* the box from lo to hi lies in the window of an axis with the given sign of motion
InWindow(lo, hi, sign) ==
    CASE sign = 1 -> 0 <= lo /\ hi <= 155 * Scale
      [] sign = -1 -> (256 - 155) * Scale <= lo /\ hi <= 256 * Scale
      [] OTHER -> 0 <= lo /\ hi <= 256 * Scale

\* C23: for every direction, quadrant, base and height, every pose that
\* setpositiontriangle returns has a bounding box exactly base wide and height
\* tall, which lies within [0, 155] along an axis of + motion, within
\* [256 - 155, 256] along an axis of - motion and within [0, 256] along an axis
\* without motion.
C23_TriangleWindow ==
    pc = "triangle" =>
        \A o \in setpositiontriangle(call.direction, call.base, call.height,
                                     call.diagonalDirection) :
            /\ o.exc = "none"
            /\ BoxHi(o.pose, 1) - BoxLo(o.pose, 1) = call.base * Scale
            /\ BoxHi(o.pose, 2) - BoxLo(o.pose, 2) = call.height * Scale
            /\ InWindow(BoxLo(o.pose, 1), BoxHi(o.pose, 1),
                        MotionX(call.direction, call.diagonalDirection))
            /\ InWindow(BoxLo(o.pose, 2), BoxHi(o.pose, 2),
                        MotionY(call.direction, call.diagonalDirection))

C23_Witness ==
    /\ pc = "animate"
    /\ call.fn = "triangle"
    /\ call.direction = "diagonal"
    /\ call.diagonalDirection = 3
    /\ call.base = 75
    /\ call.height = 75
    /\ BoxLo(start, 1) = (256 - 155) * Scale
    /\ BoxHi(start, 2) = 256 * Scale

\* the starting poses the placement solver can give a call
Starts(c) ==
    LET outcomes == IF c.fn = "circle"
                    THEN setpositioncircle(c.direction, c.radius, c.diagonalDirection)
                    ELSE setpositiontriangle(c.direction, c.base, c.height,
                                             c.diagonalDirection)
    IN  {o.pose : o \in {u \in outcomes : u.exc = "none"}}

\* the name of the file of a call, and the move of its first point per frame
NameOf(c) ==
    IF c.fn = "circle" THEN circle_filename(c.ind, c.radius, c.direction, c.speed)
    ELSE triangle_filename(c.ind, c.base, c.height, c.direction, c.speed)
MoveOf(c, s) ==
    LET at(f) == IF c.fn = "circle" THEN circle_update(c, s, f) ELSE triangle_update(c, s, f)
    IN  <<at(1)[1][1] - at(0)[1][1], at(1)[1][2] - at(0)[1][2]>>

\* the runs the program can make beside the running one: another index, any quadrant
OtherRuns ==
    {[call EXCEPT !.ind = n, !.diagonalDirection = q] :
        n \in {call.ind, call.ind + 1}, q \in 1..QuadrantMax}

\* the fields of a name without the run index
Motion(name) == [f \in {"shape", "size", "direction", "speed"} |-> Decode(name)[f]]

\* C26: every run that can write a file whose name has the shape, size,
\* direction and speed fields of the name of the running call moves its shape
\* per frame by the vector the running call moves it by.
C26_NameDeterminesMotion ==
    (pc = "close" /\ Animated) =>
        \A c \in OtherRuns : \A s \in Starts(c) :
            Motion(NameOf(c)) = Motion(ani.name) =>
                MoveOf(c, s) = <<StepX(1, 1), StepY(1, 1)>>

\* C24: once the filtering loop has run, files holds the entries of the archive
\* listing whose normalised path has more than 2 components, all of them and
\* nothing else.
C24_ShortEntriesRemoved ==
    tf.pc \in {"classes", "splits", "done", "error"} =>
        /\ \A k \in DOMAIN tf.files : tf.files[k].tokens > 2
        /\ \A k \in DOMAIN tf.listing :
                tf.listing[k].tokens > 2 => tf.listing[k] \in Elements(tf.files)

\* the source frame the k-th returned frame stands for
Wanted(k) == tf.start + (k - 1) * tf.frame_step

\* C21: for every n_frames, frame_step and video length of at least 1,
\* frames_from_video_file returns, and returns n_frames frames: the k-th is the
\* source frame (k - 1) * frame_step after the start, or a zero frame where that
\* lies past the end of the video.
C21_FrameCount ==
    (tf.pc \in {"returned", "raised"} /\ tf.video_length >= 1) =>
        /\ tf.pc = "returned"
        /\ Len(tf.result) = tf.n_frames
        /\ \A k \in 1..tf.n_frames :
                tf.result[k] = IF Wanted(k) < tf.video_length THEN Wanted(k) ELSE Zeros

\* C25: when 1 + (n_frames - 1) * frame_step <= video_length, the start chosen
\* leaves the last wanted frame inside the video, and no returned frame is a
\* zero frame.
C25_StartInsideVideo ==
    (tf.pc \in {"first", "frames", "returned", "raised"}
        /\ need_length(tf.n_frames, tf.frame_step) <= tf.video_length) =>
        /\ tf.start + (tf.n_frames - 1) * tf.frame_step <= tf.video_length - 1
        /\ tf.pc # "raised"
        /\ \A k \in DOMAIN tf.result : tf.result[k] # Zeros

====
